---- MODULE Spec2Model ----
(***************************************************************************)
(* A model of src/mdp.py: the MDP solver (value iteration, softmax policy  *)
(* extraction, simulation), the BettingGame instance and the               *)
(* InferenceMachine that compares an observed (state, action) with the     *)
(* policies of an ensemble of solved BettingGames.                         *)
(*                                                                         *)
(* Numbers.  The program computes in IEEE doubles.  Here every real is a   *)
(* fixed-point integer counted in units of 1/One, and each product or      *)
(* quotient is rounded once, where the double is rounded once.  A double   *)
(* keeps positive quotients positive down to 2^-1074; the fixed-point      *)
(* quotient keeps them positive by never rounding below one unit, so that  *)
(* "this entry is zero" means the same in the model and in the program.    *)
(*                                                                         *)
(* Sizes.  The program's game has 102 states, 101 bets and a 101-point     *)
(* hypothesis grid.  The model keeps the construction and takes the        *)
(* winning cash (100 in the source) and the number of grid intervals (100  *)
(* in the source) as the bounds Goal and GridSteps.                        *)
(***************************************************************************)
EXTENDS Integers, Sequences, FiniteSets, TLC

VARIABLES
    pHeads,      \* BettingGame.pHeads
    r,           \* MDP.r, the rewards
    t,           \* MDP.t, the transition tensor
    values,      \* MDP.values
    oldValues,   \* valueIteration's local copy of the values before a sweep
    i,           \* valueIteration's loop index
    policy,      \* MDP.policy
    pc,          \* where the game is in its life: constructor, solver, simulate
    simState,    \* simulate's local `state`
    sims,        \* InferenceMachine.sims
    likelihood,  \* InferenceMachine.likelihood
    posterior,   \* InferenceMachine.posterior
    prior,       \* InferenceMachine.prior
    state,       \* InferenceMachine.state
    action,      \* InferenceMachine.action
    lastCall,    \* the call that ran last: its name, arguments and exception
    ret          \* what the last call returned

gameVars == <<pHeads, r, t, values, oldValues, i, policy, pc, simState>>
inferVars == <<sims, likelihood, posterior, prior, state, action, lastCall>>
vars == <<gameVars, inferVars, ret>>

---------------------------------------------------------------------------
(* Bounds *)

\* The cash at which the game is won: 100 in the source.
Goal == 4
\* The number of intervals of the hypothesis grid: 100 in the source.
GridSteps == 4
\* The fixed-point unit: a real x is the integer x * One.
One == 1000

---------------------------------------------------------------------------
(* Values and arithmetic *)

\* Python's None, and the containers a field can hold.
NoneVal == [kind |-> "None"]
List(v) == [kind |-> "list", v |-> v]
Array(v) == [kind |-> "ndarray", v |-> v]
\* An array of n NaNs: what numpy stores for 0/0 in every entry.
NaNs(n) == [kind |-> "nan", n |-> n]

RECURSIVE SumFn(_, _)
SumFn(f, D) ==
    IF D = {} THEN 0
    ELSE LET d == CHOOSE d \in D : TRUE IN f[d] + SumFn(f, D \ {d})

MaxOf(S) == CHOOSE m \in S : \A n \in S : n <= m
Abs(x) == IF x < 0 THEN -x ELSE x

\* A number counted in units of 1/One^2, rounded to units of 1/One.  A double
\* of this range never rounds a nonzero result to zero, and neither does this.
Rescale(n) == LET q == n \div One IN IF q = 0 /\ n # 0 THEN 1 ELSE q

\* x * y of two fixed-point numbers.
FMul(x, y) == Rescale(x * y)

\* x / y of two non-negative fixed-point numbers, y > 0: a positive quotient
\* stays positive.
FDiv(x, y) ==
    IF x = 0 THEN 0
    ELSE LET q == (x * One) \div y IN IF q = 0 THEN 1 ELSE q

\* np.exp(e) for e <= 0.  A double underflows to 0.0 below about -745.13;
\* above that the result is positive.  Range reduction as in libm:
\* e = -(n ln 2 + f), exp(e) = 2^-n * exp(-f), exp(-f) by its Taylor series.
Exp(e) ==
    LET ln2 == (693 * One) \div 1000
        n == (-e) \div ln2
        f == (-e) - n * ln2
        f2 == FMul(f, f)
        f3 == FMul(f2, f)
        series == One - f + (f2 \div 2) - (f3 \div 6)
        scaled == IF n >= 30 THEN 0 ELSE series \div (2 ^ n)
    IN  IF e < -(745 * One) THEN 0
        ELSE IF scaled = 0 THEN 1 ELSE scaled

---------------------------------------------------------------------------
(* MDP and BettingGame *)

NumStates == Goal + 2
NumActions == Goal + 1
\* self.s = np.arange(102), self.a = np.arange(101)
States == 0 .. (NumStates - 1)
Actions == 0 .. (NumActions - 1)
\* The literal 101 of setBettingGame and isTerminal: the last state.
Dead == Goal + 1

\* self.discount = .95
discount == (95 * One) \div 100
\* valueIteration(self, epsilon = .1): the constructor passes no argument.
Epsilon == One \div 10
\* extractPolicy(self, tau=.1): the constructor passes no argument.
Tau == One \div 10

\* tHelper.  `is` on the ints of this range (CPython's cached small ints,
\* -5..256) is equality; x - y below -5 is a fresh object that is no z, and
\* no z is negative either.
tHelper(x, y, z, p) ==
    IF x + y = z /\ y = 0 THEN One
    ELSE IF y > x /\ x # z THEN 0
    ELSE IF y > x /\ x = z THEN One
    ELSE IF x - y = z THEN One - p
    ELSE IF x + y = z THEN p
    ELSE IF x + y > z /\ z = Goal THEN p
    ELSE 0

\* The end-of-game rows of setBettingGame: everything to the dead state.
ToDead == [z \in States |-> IF z = Dead THEN One ELSE 0]

\* setBettingGame: self.r = np.zeros(101) with r[0] = -10, r[100] = 100.
Rewards ==
    [s \in 0 .. Goal |->
        IF s = 0 THEN -(10 * One) ELSE IF s = Goal THEN 100 * One ELSE 0]

\* setBettingGame: self.t from tHelper, then rows 100 and 0 overwritten.
Transitions(p) ==
    [s \in States |-> [a \in Actions |->
        IF s = Goal \/ s = 0 THEN ToDead
        ELSE [z \in States |-> tHelper(s, a, z, p)]]]

\* isTerminal: `state is 101`.
isTerminal(s) == s = Dead

\* np.dot(self.t[i][a], self.values): one rounding of the exact sum.
Dot(row, V) == Rescale(SumFn([z \in States |-> row[z] * V[z]], States))

\* self.discount * np.dot(self.t[i][:][:], self.values), a vector over actions.
QValues(tt, V, s) == [a \in Actions |-> FMul(discount, Dot(tt[s][a], V))]

\* The right-hand side of line 100.
BackupValue(rr, tt, V, s) ==
    rr[s] + MaxOf({QValues(tt, V, s)[a] : a \in Actions})

\* SweepRange with one more state left out: range(len(self.s)-2).
SweepRangeShort == 0 .. (NumStates - 3)

\* for i in range(len(self.s)-1)
SweepRange == 0 .. (NumStates - 2)

\* np.max(np.abs(self.values - oldValues))
MaxAbsDiff(V, W) == MaxOf({Abs(V[s] - W[s]) : s \in States})

\* One sweep of valueIteration's for loop, in place, from index k on.
RECURSIVE SweepFrom(_, _, _, _)
SweepFrom(rr, tt, V, k) ==
    IF k \notin SweepRange THEN V
    ELSE SweepFrom(rr, tt, [V EXCEPT ![k] = BackupValue(rr, tt, V, k)], k + 1)

\* valueIteration's while loop, from the values V.
RECURSIVE Iterate(_, _, _)
Iterate(rr, tt, V) ==
    LET W == SweepFrom(rr, tt, V, 0)
    IN  IF MaxAbsDiff(W, V) <= Epsilon THEN W ELSE Iterate(rr, tt, W)

Zeros(D) == [d \in D |-> 0]

\* valueIteration as a whole.
valueIteration(rr, tt) == Iterate(rr, tt, Zeros(States))

\* The body of extractPolicy's loop: the softmax row of state s.
PolicyRow(rr, tt, V, s) ==
    LET q == [a \in Actions |-> rr[s] + QValues(tt, V, s)[a]]
        m == MaxOf({q[a] : a \in Actions})
        w == [a \in Actions |-> Exp(((q[a] - m) * One) \div Tau)]
        total == SumFn(w, Actions)
    IN  [a \in Actions |-> FDiv(w[a], total)]

\* extractPolicy as a whole: np.zeros, then the rows of the loop's range.
extractPolicy(rr, tt, V) ==
    [s \in States |->
        IF s \in SweepRange THEN PolicyRow(rr, tt, V, s) ELSE Zeros(Actions)]

\* np.arange(0, 1.01, .01), the pHeads of the ensemble.
BiasGrid == [k \in 1 .. (GridSteps + 1) |-> ((k - 1) * One) \div GridSteps]

\* BettingGame(p): the object its constructor leaves.
BettingGame(p) ==
    LET V == valueIteration(Rewards, Transitions(p))
    IN  [pHeads |-> p,
         r |-> Rewards,
         t |-> Transitions(p),
         values |-> V,
         policy |-> extractPolicy(Rewards, Transitions(p), V)]

---------------------------------------------------------------------------
(* InferenceMachine: the pure parts *)

\* buildBiasEngine: one solved BettingGame per grid point, in grid order.
buildBiasEngine == [k \in 1 .. (GridSteps + 1) |-> BettingGame(BiasGrid[k])]

\* np.linspace(.01, 1.0, 101): the abscissae of inferPosterior,
\* expectedPosterior and plotDistributions.
linspace ==
    LET start == One \div 100
    IN  [k \in 1 .. (GridSteps + 1) |->
            IF k = GridSteps + 1 THEN One
            ELSE start + ((k - 1) * (One - start)) \div GridSteps]

\* The square root of a fixed-point number in 0..One.
Sqrt(u) == CHOOSE y \in 0 .. One : y * y <= u * One /\ u * One < (y + 1) * (y + 1)

\* u^0.9 for u in 0..One, by the binary expansion 0.9 = 0.1110011..b:
\* u^(1/2) * u^(1/4) * u^(1/8) * u^(1/64) * u^(1/128).
Pow09(u) ==
    LET s1 == Sqrt(u)
        s2 == Sqrt(s1)
        s3 == Sqrt(s2)
        s6 == Sqrt(Sqrt(Sqrt(s3)))
        s7 == Sqrt(s6)
    IN  FMul(FMul(FMul(FMul(s1, s2), s3), s6), s7)

\* beta.pdf(x, 1.9, 1.9) = x^0.9 (1-x)^0.9 / B(1.9, 1.9), 1/B = 5.0748.
betaPdf(x) ==
    FMul(FMul(Pow09(x), Pow09(One - x)), (5075 * One) \div 1000)

\* Lines 356-358: the Beta density on linspace, divided by its sum.
Prior ==
    LET pdf == [k \in DOMAIN linspace |-> betaPdf(linspace[k])]
        total == SumFn(pdf, DOMAIN pdf)
    IN  [k \in DOMAIN pdf |-> FDiv(pdf[k], total)]

\* numpy's index check on an axis of length n, and the index it reads:
\* -n..-1 count from the end.
InBounds(idx, n) == -n <= idx /\ idx < n
Wrap(idx, n) == IF idx < 0 THEN idx + n ELSE idx

\* The list inferLikelihood's loop builds: sims[i].policy[state][action].
LikelihoodOf(ss, st, ac) ==
    [k \in 1 .. Len(ss) |->
        ss[k].policy[Wrap(st, NumStates)][Wrap(ac, NumActions)]]

\* PosteriorOf without line 361: the product left unnormalised.
PosteriorUnnormalised(lik, pri) ==
    Array([k \in DOMAIN pri |->
              FMul(IF Len(lik) = 1 THEN lik[1] ELSE lik[k], pri[k])])

\* Lines 360-361: likelihood * prior (a one-element list broadcasts), then
\* the division by the sum; 0/0 is NaN in every entry.
PosteriorOf(lik, pri) ==
    LET prod == [k \in DOMAIN pri |->
                    FMul(IF Len(lik) = 1 THEN lik[1] ELSE lik[k], pri[k])]
        total == SumFn(prod, DOMAIN prod)
    IN  IF total = 0 THEN NaNs(Len(pri))
        ELSE Array([k \in DOMAIN pri |-> FDiv(prod[k], total)])

\* expectedPosterior's loop over range(len(self.posterior)).
ExpectationOf(post) ==
    IF post.kind = "nan" THEN [kind |-> "nan"]
    ELSE [kind |-> "float",
          v |-> SumFn([k \in DOMAIN post.v |-> FMul(post.v[k], linspace[k])],
                      DOMAIN post.v)]

IntVal(n) == [kind |-> "int", v |-> n]
Call(op, st, ac, raised) == [op |-> op, st |-> st, ac |-> ac, raised |-> raised]

---------------------------------------------------------------------------
(* The life of one BettingGame *)

InferIdle ==
    /\ sims = <<>>
    /\ likelihood = NoneVal
    /\ posterior = NoneVal
    /\ prior = NoneVal
    /\ state = NoneVal
    /\ action = NoneVal
    /\ lastCall = Call("none", 0, 0, "none")

\* BettingGame.__init__ after MDP.__init__: every field is still None.
GameInit ==
    /\ pHeads \in {BiasGrid[k] : k \in DOMAIN BiasGrid}
    /\ r = NoneVal
    /\ t = NoneVal
    /\ values = NoneVal
    /\ oldValues = NoneVal
    /\ i = 0
    /\ policy = NoneVal
    /\ pc = "init"
    /\ simState = NoneVal
    /\ ret = NoneVal
    /\ InferIdle

setBettingGame ==
    /\ pc = "init"
    /\ r' = Rewards
    /\ t' = Transitions(pHeads)
    /\ pc' = "built"
    /\ UNCHANGED <<pHeads, values, oldValues, i, policy, simState, ret, inferVars>>

\* Lines 90 and 96: V = 0, and the first sweep's copy.
valueIterationBegin ==
    /\ pc = "built"
    /\ values' = Zeros(States)
    /\ oldValues' = Zeros(States)
    /\ i' = 0
    /\ pc' = "sweep"
    /\ UNCHANGED <<pHeads, r, t, policy, simState, ret, inferVars>>

\* Backup reading the copy made before the sweep: a synchronous (Jacobi)
\* update instead of the in-place one.
BackupFromOldValues ==
    /\ pc = "sweep"
    /\ i \in SweepRange
    /\ values' = [values EXCEPT ![i] = BackupValue(r, t, oldValues, i)]
    /\ i' = i + 1
    /\ UNCHANGED <<pHeads, r, t, oldValues, policy, pc, simState, ret, inferVars>>

\* Line 100, once: the backup of state i, written in place.
Backup ==
    /\ pc = "sweep"
    /\ i \in SweepRange
    /\ values' = [values EXCEPT ![i] = BackupValue(r, t, values, i)]
    /\ i' = i + 1
    /\ UNCHANGED <<pHeads, r, t, oldValues, policy, pc, simState, ret, inferVars>>

\* Lines 103-105: the loop ends here, or line 96 starts the next sweep.
CheckConvergence ==
    /\ pc = "sweep"
    /\ i \notin SweepRange
    /\ \/ /\ MaxAbsDiff(values, oldValues) <= Epsilon
          /\ pc' = "converged"
          /\ UNCHANGED <<oldValues, i>>
       \/ /\ ~(MaxAbsDiff(values, oldValues) <= Epsilon)
          /\ pc' = "sweep"
          /\ oldValues' = values
          /\ i' = 0
    /\ UNCHANGED <<pHeads, r, t, values, policy, simState, ret, inferVars>>

ExtractPolicy ==
    /\ pc = "converged"
    /\ policy' = extractPolicy(r, t, values)
    /\ pc' = "solved"
    /\ UNCHANGED <<pHeads, r, t, values, oldValues, i, simState, ret, inferVars>>

\* simulate(state): the while test of line 141 on entry.
simulateCall(start) ==
    /\ pc \in {"solved", "returned", "aborted"}
    /\ simState' = IntVal(start)
    /\ ret' = NoneVal
    /\ pc' = IF isTerminal(start) THEN "returned" ELSE "sim"
    /\ UNCHANGED <<pHeads, r, t, values, oldValues, i, policy, inferVars>>

\* The actions line 150-151 can draw: a policy value of nonzero probability,
\* then any action whose policy entry equals it.
DrawnActions(s) ==
    {a \in Actions :
        \E b \in Actions : policy[s][b] > 0 /\ policy[s][a] = policy[s][b]}

\* np.random.choice(a, p=p) raises ValueError unless p sums to 1.
ChoiceAccepts(p) == SumFn(p, DOMAIN p) = One

\* One round of simulate's loop, lines 144-164; takeAction is line 154.
simulateStep ==
    /\ pc = "sim"
    /\ \E a \in DrawnActions(simState.v) :
        LET row == t[simState.v][a] IN
        \/ /\ ~ChoiceAccepts(row)
           /\ pc' = "aborted"
           /\ UNCHANGED <<simState, ret>>
        \/ /\ ChoiceAccepts(row)
           /\ \E z \in States :
                /\ row[z] > 0
                /\ simState' = IntVal(z)
                /\ \/ /\ isTerminal(z)
                      /\ pc' = "returned"
                      /\ ret' = IntVal(z)
                   \/ /\ ~isTerminal(z)
                      /\ pc' = "sim"
                      /\ UNCHANGED ret
    /\ UNCHANGED <<pHeads, r, t, values, oldValues, i, policy, inferVars>>

GameNext ==
    \/ setBettingGame
    \/ valueIterationBegin
    \/ Backup
    \/ CheckConvergence
    \/ ExtractPolicy
    \/ \E start \in States : simulateCall(start)
    \/ simulateStep

Spec == GameInit /\ [][GameNext]_vars

---------------------------------------------------------------------------
(* The life of the InferenceMachine *)

\* No game of its own is under construction beside the machine.
GameIdle ==
    /\ pHeads = 0
    /\ r = NoneVal
    /\ t = NoneVal
    /\ values = NoneVal
    /\ oldValues = NoneVal
    /\ i = 0
    /\ policy = NoneVal
    /\ pc = "idle"
    /\ simState = NoneVal

\* InferenceMachine.__init__: the fields set to None, then buildBiasEngine.
InferInit ==
    /\ GameIdle
    /\ sims = buildBiasEngine
    /\ likelihood = NoneVal
    /\ posterior = NoneVal
    /\ prior = NoneVal
    /\ state = NoneVal
    /\ action = NoneVal
    /\ lastCall = Call("__init__", 0, 0, "none")
    /\ ret = NoneVal

\* The states and actions a caller queries with: in the declared spaces, the
\* negative indices numpy accepts, and both sides out of bounds.
QueryStates == {-(NumStates + 1), -1, 0, Goal - 1, Dead, NumStates}
QueryActions == {-(NumActions + 1), -1, 1, NumActions}

\* inferLikelihood running buildBiasEngine again before it reads the
\* ensemble: buildBiasEngine appends, so the ensemble doubles.
inferLikelihoodRebuilding(st, ac) ==
    /\ state' = IntVal(st)
    /\ action' = IntVal(ac)
    /\ sims' = sims \o buildBiasEngine
    /\ \/ /\ InBounds(st, NumStates) /\ InBounds(ac, NumActions)
          /\ likelihood' = List(LikelihoodOf(sims', st, ac))
          /\ lastCall' = Call("inferLikelihood", st, ac, "none")
       \/ /\ ~(InBounds(st, NumStates) /\ InBounds(ac, NumActions))
          /\ likelihood' = List(<<>>)
          /\ lastCall' = Call("inferLikelihood", st, ac, "IndexError")
    /\ ret' = NoneVal
    /\ UNCHANGED <<posterior, prior, gameVars>>

inferLikelihood(st, ac) ==
    /\ state' = IntVal(st)
    /\ action' = IntVal(ac)
    /\ \/ /\ InBounds(st, NumStates) /\ InBounds(ac, NumActions)
          /\ likelihood' = List(LikelihoodOf(sims, st, ac))
          /\ lastCall' = Call("inferLikelihood", st, ac, "none")
       \/ /\ ~(InBounds(st, NumStates) /\ InBounds(ac, NumActions))
          /\ likelihood' = List(<<>>)
          /\ lastCall' = Call("inferLikelihood", st, ac, "IndexError")
    /\ ret' = NoneVal
    /\ UNCHANGED <<sims, posterior, prior, gameVars>>

\* inferPosterior computing the likelihood of its own arguments instead of
\* reading the stored one.
inferPosteriorOfArguments(st, ac) ==
    /\ prior' = Array(Prior)
    /\ \/ /\ ~(InBounds(st, NumStates) /\ InBounds(ac, NumActions))
          /\ lastCall' = Call("inferPosterior", st, ac, "IndexError")
          /\ UNCHANGED posterior
       \/ /\ InBounds(st, NumStates) /\ InBounds(ac, NumActions)
          /\ posterior' = PosteriorOf(LikelihoodOf(sims, st, ac), Prior)
          /\ lastCall' = Call("inferPosterior", st, ac, "none")
    /\ ret' = NoneVal
    /\ UNCHANGED <<sims, likelihood, state, action, gameVars>>

inferPosterior(st, ac) ==
    /\ prior' = Array(Prior)
    /\ \/ /\ likelihood.kind = "None"
          /\ lastCall' = Call("inferPosterior", st, ac, "TypeError")
          /\ UNCHANGED posterior
       \/ /\ likelihood.kind = "list"
          /\ Len(likelihood.v) \notin {1, Len(Prior)}
          /\ lastCall' = Call("inferPosterior", st, ac, "ValueError")
          /\ UNCHANGED posterior
       \/ /\ likelihood.kind = "list"
          /\ Len(likelihood.v) \in {1, Len(Prior)}
          /\ posterior' = PosteriorOf(likelihood.v, Prior)
          /\ lastCall' = Call("inferPosterior", st, ac, "none")
    /\ ret' = NoneVal
    /\ UNCHANGED <<sims, likelihood, state, action, gameVars>>

expectedPosterior ==
    /\ \/ /\ posterior.kind = "None"
          /\ lastCall' = Call("expectedPosterior", 0, 0, "TypeError")
          /\ ret' = NoneVal
       \/ /\ posterior.kind # "None"
          /\ lastCall' = Call("expectedPosterior", 0, 0, "none")
          /\ ret' = ExpectationOf(posterior)
    /\ UNCHANGED <<sims, likelihood, posterior, prior, state, action, gameVars>>

\* inferSummary: the three calls in a row; the first exception ends it.  After
\* an inferLikelihood that returned, the other two cannot raise.
inferSummary(st, ac) ==
    /\ state' = IntVal(st)
    /\ action' = IntVal(ac)
    /\ \/ /\ InBounds(st, NumStates) /\ InBounds(ac, NumActions)
          /\ likelihood' = List(LikelihoodOf(sims, st, ac))
          /\ prior' = Array(Prior)
          /\ posterior' = PosteriorOf(LikelihoodOf(sims, st, ac), Prior)
          /\ lastCall' = Call("inferSummary", st, ac, "none")
       \/ /\ ~(InBounds(st, NumStates) /\ InBounds(ac, NumActions))
          /\ likelihood' = List(<<>>)
          /\ lastCall' = Call("inferSummary", st, ac, "IndexError")
          /\ UNCHANGED <<prior, posterior>>
    /\ ret' = NoneVal
    /\ UNCHANGED <<sims, gameVars>>

InferNext ==
    \/ \E st \in QueryStates, ac \in QueryActions : inferLikelihood(st, ac)
    \/ \E st \in QueryStates, ac \in QueryActions : inferPosterior(st, ac)
    \/ expectedPosterior
    \/ \E st \in QueryStates, ac \in QueryActions : inferSummary(st, ac)

SpecInfer == InferInit /\ [][InferNext]_vars

---------------------------------------------------------------------------
(* Properties of the BettingGame, under Spec *)

RowSum(row) == SumFn(row, DOMAIN row)
Solved == pc \in {"solved", "sim", "returned", "aborted"}

\* C1: once setBettingGame has run, every transition row T(s,a,.) sums to
\* exactly 1 over the successor states.
C1_RowsSumToOne ==
    pc # "init" =>
        \A s \in States, a \in Actions : RowSum(t[s][a]) = One

\* C2: simulate never aborts, and the state it returns is terminal.
C2_SimulateReturnsTerminal ==
    /\ pc # "aborted"
    /\ (pc = "returned" /\ ret.kind = "int") => isTerminal(ret.v)

\* The vector the backup of state k reads in a Gauss-Seidel sweep: this
\* sweep's values below k, the previous sweep's from k on.
SweepView(k) ==
    [j \in States |-> IF j < k THEN values'[j] ELSE oldValues[j]]

\* C8: valueIteration starts from V = 0; a sweep backs the states up in
\* increasing index order and in place, the backup of state i reading this
\* sweep's values for j < i and the previous sweep's for j >= i; the loop ends
\* at the end of the first sweep whose largest change is <= epsilon, and at
\* no other point.
C8_InPlaceSweepsUntilConverged ==
    [][ /\ (pc = "built" /\ pc' = "sweep") =>
            (values' = Zeros(States) /\ i' = 0)
        /\ (pc = "sweep" /\ pc' = "sweep" /\ i' # 0) =>
            /\ i' = i + 1
            /\ values'[i] =
                 r[i] + MaxOf({FMul(discount, Dot(t[i][a], SweepView(i))) :
                                 a \in Actions})
            /\ \A j \in States \ {i} : values'[j] = values[j]
        /\ (pc = "sweep" /\ pc' = "sweep" /\ i' = 0) =>
            /\ i = NumStates - 1
            /\ MaxAbsDiff(values, oldValues) > Epsilon
            /\ values' = values
        /\ (pc = "sweep" /\ pc' = "converged") =>
            /\ i = NumStates - 1
            /\ MaxAbsDiff(values, oldValues) <= Epsilon
            /\ values' = values
        /\ (pc = "sweep" /\ i = NumStates - 1
              /\ MaxAbsDiff(values, oldValues) <= Epsilon) =>
            pc' = "converged"
      ]_vars

\* A later sweep, part way: what it has written differs from the sweep before.
C8_Witness ==
    /\ pc = "sweep"
    /\ i = Goal
    /\ oldValues # Zeros(States)
    /\ \E j \in 0 .. (i - 1) : values[j] # oldValues[j]

\* C9: the last state index alone is left out of the backup and of policy
\* extraction: every sweep ends with the loop index at the last state, its
\* value stays 0 and its policy row stays 0, and every other state, the
\* end-of-game states 0 and Goal included, gets a policy row that sums to 1
\* (to the rounding of its entries).
C9_OnlyLastStateLeftOut ==
    /\ pc = "sweep" => (i \in 0 .. (NumStates - 1) /\ values[NumStates - 1] = 0)
    /\ pc = "converged" => (i = NumStates - 1 /\ values[NumStates - 1] = 0)
    /\ Solved =>
        /\ values[NumStates - 1] = 0
        /\ \A a \in Actions : policy[NumStates - 1][a] = 0
        /\ \A s \in States \ {NumStates - 1} :
            /\ \A a \in Actions : policy[s][a] >= 0
            /\ Abs(RowSum(policy[s]) - One) <= NumActions

\* A solved game with a chance to win: both end-of-game states carry their
\* recomputed values, the dead state none.
C9_Witness ==
    /\ pc = "solved"
    /\ pHeads > 0
    /\ values[0] = Rewards[0]
    /\ values[Goal] = Rewards[Goal]
    /\ values[Dead] = 0
    /\ RowSum(policy[Dead]) = 0

---------------------------------------------------------------------------
(* Properties of the InferenceMachine, under SpecInfer *)

\* inferPosterior ran last and returned.
Posteriored == lastCall.op = "inferPosterior" /\ lastCall.raised = "none"
\* inferLikelihood and then inferPosterior ran last, by hand or in inferSummary.
Inferred == lastCall.op \in {"inferPosterior", "inferSummary"} /\ lastCall.raised = "none"

\* C3: the grid on which the prior is evaluated and the posterior averaged is
\* the grid of pHeads the ensemble was built with.
C3_PriorGridIsBiasGrid ==
    lastCall.op \in {"inferPosterior", "expectedPosterior", "inferSummary"} =>
        \A k \in DOMAIN sims : linspace[k] = sims[k].pHeads

\* C4: when inferLikelihood, asked about a state and an action of the
\* declared spaces, stored a likelihood that is zero for every ensemble
\* member, inferPosterior raises UnobservableEvidence, and no posterior of a
\* division by a zero sum is stored.
C4_ZeroLikelihoodIsAnError ==
    (/\ lastCall.op = "inferPosterior"
     /\ state.kind = "int" /\ state.v \in States
     /\ action.kind = "int" /\ action.v \in Actions
     /\ likelihood.kind = "list"
     /\ Len(likelihood.v) > 0
     /\ \A k \in DOMAIN likelihood.v : likelihood.v[k] = 0) =>
        (lastCall.raised = "UnobservableEvidence" /\ posterior.kind # "nan")

\* C5: after inferLikelihood and inferPosterior, when some likelihood entry
\* is nonzero, posterior[k] = likelihood[k] prior[k] / sum_j likelihood[j]
\* prior[j]; the posterior is non-negative and sums to 1, and so does the
\* prior (each to the rounding of its entries).
C5_PosteriorIsNormalisedProduct ==
    (Inferred /\ \E k \in DOMAIN likelihood.v : likelihood.v[k] # 0) =>
        LET lik == likelihood.v
            n == Len(lik)
            prod == [k \in 1 .. n |-> FMul(lik[k], prior.v[k])]
        IN  /\ posterior.kind = "ndarray"
            /\ prior.kind = "ndarray"
            /\ Len(posterior.v) = n /\ Len(prior.v) = n
            /\ SumFn(prod, 1 .. n) > 0
            /\ \A k \in 1 .. n :
                /\ posterior.v[k] = FDiv(prod[k], SumFn(prod, 1 .. n))
                /\ posterior.v[k] >= 0
                /\ prior.v[k] >= 0
            /\ Abs(SumFn(posterior.v, 1 .. n) - One) <= n
            /\ Abs(SumFn(prior.v, 1 .. n) - One) <= n

\* A posterior that the evidence moved away from the prior.
C5_Witness ==
    /\ Posteriored
    /\ posterior.kind = "ndarray"
    /\ \E k \in DOMAIN likelihood.v : likelihood.v[k] # 0
    /\ posterior.v # prior.v

\* C6: the ensemble is what the constructor built, after any sequence of
\* queries: as many members, each with the pHeads, transitions, rewards,
\* values and policy it was built with.
C6_EnsembleUnchanged ==
    /\ Len(sims) = GridSteps + 1
    /\ sims = buildBiasEngine
    /\ \A k \in DOMAIN sims : sims[k].pHeads = BiasGrid[k]

\* All three queries have run and returned.
C6_Witness ==
    /\ lastCall.op = "expectedPosterior"
    /\ ret.kind = "float"
    /\ likelihood.kind = "list"
    /\ posterior.kind = "ndarray"

OutOfSpace(st, ac) == st \notin States \/ ac \notin Actions

\* C7: inferLikelihood with a state or action outside the declared spaces
\* raises, and leaves the stored likelihood, state and action as they were.
C7_OutOfSpaceQueryIsRefused ==
    [][ (lastCall'.op = "inferLikelihood"
            /\ OutOfSpace(lastCall'.st, lastCall'.ac)) =>
          (lastCall'.raised # "none" /\ UNCHANGED <<likelihood, state, action>>)
      ]_vars

\* C10: the posterior inferPosterior stores is the one of the state and
\* action of the most recent inferLikelihood, whatever its own arguments;
\* and a posterior exists only once a likelihood does.
C10_PosteriorOfLastLikelihood ==
    /\ Posteriored =>
        /\ state.kind = "int" /\ action.kind = "int"
        /\ posterior = PosteriorOf(LikelihoodOf(sims, state.v, action.v), Prior)
    /\ posterior.kind # "None" => likelihood.kind = "list"

\* inferLikelihood(0, a) then inferPosterior(Dead, a'): the posterior stored
\* is a distribution, where the one of the dead state is NaN.
C10_Witness ==
    /\ Posteriored
    /\ lastCall.st = Dead
    /\ state = IntVal(0)
    /\ posterior.kind = "ndarray"
====
